---- MODULE Spec2Model ----
(***************************************************************************)
(* The audio pipeline of src/audio/prerenderer.rs as a state machine.      *)
(*                                                                         *)
(* Three kinds of thread share the state of PrerenderedAudio:              *)
(*   - the controller (the UI thread): set_events, start, stop,            *)
(*     switch_render_mode, each a sequence of atomic stores;               *)
(*   - the generator threads spawned by start_render_thread, each running  *)
(*     PrerenderBuffer::generator_func;                                    *)
(*   - the audio callback built by build_stream.                           *)
(* Every load or store of a shared atomic, and every mutex acquisition, is *)
(* a step of its own; statements that touch only what the stepping thread  *)
(* owns are part of the step of the shared access next to them.            *)
(*                                                                         *)
(* The ring is modelled in stereo frames (the code indexes floats, always  *)
(* in pairs): audio_buffer has BufferFrames slots.  A slot holds 0 (the    *)
(* silence the buffer is created with) or Tag(a), the frame the engine     *)
(* rendered for absolute frame index a.                                    *)
(***************************************************************************)
EXTENDS Integers, Sequences, FiniteSets, TLC

\* ---------------------------------------------------------------- bounds
BufferFrames == 4      \* frames of ring storage (60 s * sample rate in the code)
BlockFrames == 2       \* frames per audio callback (data.len() / 2)
MaxReadPos == 6        \* the callback is not invoked once read_pos reaches this
MaxThreads == 2        \* thread slots available to start_render_thread
MaxCalls == 2          \* calls of start, stop and switch_render_mode the UI makes
MaxHundreds == 205     \* hundreds of frames the cursors reach when an event is dispatched
MaxTick == 5           \* the ticks navigate_to is given, besides 1920 and 3840
MaxClockSteps == 3     \* steps of the wall clock
LimiterRate == 1000    \* frames per second of the device the limiter is built for
SampleRate == 1        \* frames per second reported by the device

Threads == 1..MaxThreads
NoThread == 0

\* ---------------------------------------------------------------- events
NoEvent == [time |-> 0, event_type |-> "None", key |-> 0, vel |-> 0]

\* time is in milliseconds here (an f32 of seconds in the code)
NoteOnEv(t, k, v) == [time |-> t, event_type |-> "NoteOn", key |-> k, vel |-> v]

NoteOffEv(t, k) == [time |-> t, event_type |-> "NoteOff", key |-> k, vel |-> 0]

\* the event lists handed to set_events
EventLists ==
    { <<>>,
      << NoteOnEv(1000, 60, 127), NoteOffEv(1500, 60) >>,
      << NoteOnEv(13000, 61, 100) >> }

\* (e.time * self.sample_rate as f32) as isize : truncation of a non-negative product
TargetFrame(e) == (e.time * SampleRate) \div 1000

Min(a, b) == IF a < b THEN a ELSE b

\* Rust's integer division truncates toward zero
TruncDiv(a, b) == IF a >= 0 THEN a \div b ELSE -((-a) \div b)

\* ---------------------------------------------------------------- samples
Tag(a) == a + 1        \* the frame rendered for absolute frame index a
Silence == 0           \* 0.0
Live == -1             \* a frame rendered by the engine straight into the callback's block
Garbage == -2          \* what the device's block holds before the callback writes it

VARIABLES
    render_mode,       \* PrerenderedAudio.render_mode
    reset_requested,   \* PrerenderedAudio.reset_requested
    read_pos,          \* PrerenderBuffer.read_pos
    write_pos,         \* PrerenderBuffer.write_pos
    audio_buffer,      \* PrerenderBuffer.audio_buffer, by frame slot
    buffer_poisoned,   \* the audio_buffer mutex was held by a thread that panicked
    events,            \* PrerenderedAudio.events
    generator_thread,  \* PrerenderedAudio.generator_thread: NoThread or a thread
    xsynth_owner,      \* the thread holding the xsynth mutex, or NoThread
    xsynth_poisoned,   \* the xsynth mutex was held by a thread that panicked
    synth,             \* the engine: the keys sounding
    gen,               \* the generator threads: position and locals of generator_func
    ctl,               \* the controller: the operation in progress and its position
    con,               \* the audio callback: position and locals
    playback,          \* Playback: the playback clock of the UI thread
    ppq,               \* ProjectSettings.ppq
    now,               \* the wall clock that Instant::now() reads
    tick_pos,          \* NavigationInfo.tick_pos: the position the clock reported last
    limiter,           \* Limiter: the envelopes of the two channels
    samples            \* the block apply_limiter was given last, as it left it

\* the playback clock and what it reads and writes
clockVars == << playback, ppq, now, tick_pos >>

\* the limiter and its block
limiterVars == << limiter, samples >>

\* the audio pipeline
audioVars == << render_mode, reset_requested, read_pos, write_pos, audio_buffer,
                buffer_poisoned, events, generator_thread, xsynth_owner,
                xsynth_poisoned, synth, gen, ctl, con >>

vars == << render_mode, reset_requested, read_pos, write_pos, audio_buffer,
           buffer_poisoned, events, generator_thread, xsynth_owner,
           xsynth_poisoned, synth, gen, ctl, con,
           playback, ppq, now, tick_pos, limiter, samples >>

Slots == 0..(BufferFrames - 1)

BlockIdx == 0..(BlockFrames - 1)

\* pulled counts the frames the thread has had the engine render into the storage
GenIdle == [pc |-> "none", evs |-> << >>, e |-> NoEvent, remaining |-> 0,
            spare |-> 0, kills |-> 0, pulled |-> 0]

ConIdle == [pc |-> "idle", read |-> 0, rp |-> 0, wp |-> 0, copy_count |-> 0,
            data |-> [k \in BlockIdx |-> Garbage], limited |-> FALSE]

\* ---------------------------------------------------------------- playback clock
\* Times are integers in clock units: a second holds 1000 * ppq of them, so that
\* the seconds of one tick, 60 / (tempo * ppq), are the integer 60000 / tempo for
\* every tempo that divides 60000.  The rounding of f32 is not part of the model.
UnitsPerSec(q) == 1000 * q

\* TempoEvent
TempoEv(t, tn, b) == [time |-> t, time_norm |-> tn, tempo |-> b]

\* Playback::new, and the tempo events main.rs gives it
PlaybackNew(tempo_events) ==
    [playback_secs |-> 0, last_pos |-> 0, is_playing |-> FALSE, time_delta |-> 0,
     tempo_events |-> tempo_events]

\* MainWindow::new: one tempo event at tick 0 with the project's initial tempo
InitialTempo == << TempoEv(0, 0, 160) >>

\* ---------------------------------------------------------------- limiter
\* Sample values and envelopes are integers in units of 1 / Unity; attack and
\* falloff are kept in hundredths.
Unity == 40

\* Limiter::new(0.01, 0.1, sample_rate)
LimiterNew ==
    [loudness_l |-> Unity, loudness_r |-> Unity, velocity_l |-> 0, velocity_r |-> 0,
     attack |-> 1 * LimiterRate, falloff |-> 10 * LimiterRate,
     strength |-> Unity, min_thresh |-> (4 * Unity) \div 10]

\* a generator thread that was spawned and has neither returned nor panicked
Alive(p) == gen[p].pc \notin {"none", "done", "panicked"}

\* the main thread has panicked: the process is gone
Crashed == ctl.pc = "panicked"

Init ==
    /\ render_mode = "Realtime"
    /\ reset_requested = FALSE
    /\ read_pos = 0
    /\ write_pos = 0
    /\ audio_buffer = [s \in Slots |-> Silence]
    /\ buffer_poisoned = FALSE
    /\ events = << >>
    /\ generator_thread = NoThread
    /\ xsynth_owner = NoThread
    /\ xsynth_poisoned = FALSE
    /\ synth = {}
    /\ gen = [p \in Threads |-> GenIdle]
    /\ ctl = [pc |-> "idle", op |-> "none", calls |-> 0]
    /\ con = ConIdle
    /\ playback = PlaybackNew(InitialTempo)
    /\ ppq = 1920
    /\ now = 0
    /\ tick_pos = 0
    /\ limiter = LimiterNew
    /\ samples = << >>

\* ---------------------------------------------------------------- controller
SetEvents_Always(evs) ==
    /\ ~Crashed
    /\ ctl.pc = "idle"
    /\ events' = evs
    /\ UNCHANGED << clockVars, limiterVars >>
    /\ UNCHANGED << render_mode, reset_requested, read_pos, write_pos, audio_buffer,
                    buffer_poisoned, generator_thread, xsynth_owner, xsynth_poisoned,
                    synth, gen, ctl, con >>

\* set_events: replaces the pending list unless the given list is empty
SetEvents(evs) ==
    /\ ~Crashed
    /\ ctl.pc = "idle"
    /\ events' = IF Len(evs) > 0 THEN evs ELSE events
    /\ UNCHANGED << clockVars, limiterVars >>
    /\ UNCHANGED << render_mode, reset_requested, read_pos, write_pos, audio_buffer,
                    buffer_poisoned, generator_thread, xsynth_owner, xsynth_poisoned,
                    synth, gen, ctl, con >>

\* the UI thread enters start, stop or switch_render_mode; all three begin with
\* kill_last_generator
Call(op) ==
    /\ ~Crashed
    /\ ctl.pc = "idle"
    /\ ctl.calls < MaxCalls
    /\ ctl' = [pc |-> "kill_store", op |-> op, calls |-> ctl.calls + 1]
    /\ UNCHANGED << clockVars, limiterVars >>
    /\ UNCHANGED << render_mode, reset_requested, read_pos, write_pos, audio_buffer,
                    buffer_poisoned, events, generator_thread, xsynth_owner,
                    xsynth_poisoned, synth, gen, con >>

Starting == ctl.op \in {"start", "to_rendering"}

\* kill_last_generator: self.reset_requested.store(true)
KillStore ==
    /\ ~Crashed
    /\ ctl.pc = "kill_store"
    /\ reset_requested' = TRUE
    /\ ctl' = [ctl EXCEPT !.pc = "kill_join"]
    /\ UNCHANGED << clockVars, limiterVars >>
    /\ UNCHANGED << render_mode, read_pos, write_pos, audio_buffer, buffer_poisoned,
                    events, generator_thread, xsynth_owner, xsynth_poisoned, synth,
                    gen, con >>

JoinReturns_NoWait(t) == TRUE

\* thread.join() returns once the thread has returned or panicked
JoinReturns(t) == gen[t].pc \in {"done", "panicked"}

\* kill_last_generator: if let Some(thread) = self.generator_thread.take()
\*                          { thread.join().unwrap(); }
KillJoin ==
    /\ ~Crashed
    /\ ctl.pc = "kill_join"
    /\ generator_thread # NoThread => JoinReturns(generator_thread)
    /\ generator_thread' = NoThread
    /\ IF generator_thread # NoThread /\ gen[generator_thread].pc = "panicked"
       THEN /\ ctl' = [ctl EXCEPT !.pc = "panicked"]
            /\ gen' = gen
       ELSE /\ ctl' = [ctl EXCEPT !.pc = IF Starting THEN "start_clear" ELSE "stop_store"]
            /\ gen' = IF generator_thread # NoThread /\ gen[generator_thread].pc = "done"
                      THEN [gen EXCEPT ![generator_thread] = GenIdle]
                      ELSE gen
    /\ UNCHANGED << clockVars, limiterVars >>
    /\ UNCHANGED << render_mode, reset_requested, read_pos, write_pos, audio_buffer,
                    buffer_poisoned, events, xsynth_owner, xsynth_poisoned, synth, con >>

\* start: self.reset_requested.store(false)
StartClear ==
    /\ ~Crashed
    /\ ctl.pc = "start_clear"
    /\ reset_requested' = FALSE
    /\ ctl' = [ctl EXCEPT !.pc = "start_spawn"]
    /\ UNCHANGED << clockVars, limiterVars >>
    /\ UNCHANGED << render_mode, read_pos, write_pos, audio_buffer, buffer_poisoned,
                    events, generator_thread, xsynth_owner, xsynth_poisoned, synth,
                    gen, con >>

FreeThread == CHOOSE p \in Threads : gen[p].pc = "none" /\ \A q \in Threads : gen[q].pc = "none" => p <= q

\* start: self.generator_thread = Some(self.start_render_thread()).  The spawned
\* thread owns the events taken out of self.events, which is left empty.
StartSpawn ==
    /\ ~Crashed
    /\ ctl.pc = "start_spawn"
    /\ \E p \in Threads : gen[p].pc = "none"
    /\ gen' = [gen EXCEPT ![FreeThread] = [GenIdle EXCEPT !.pc = "wr0", !.evs = events]]
    /\ events' = << >>
    /\ generator_thread' = FreeThread
    /\ ctl' = IF ctl.op = "start" THEN [ctl EXCEPT !.pc = "idle", !.op = "none"]
              ELSE [ctl EXCEPT !.pc = "mode_store"]
    /\ UNCHANGED << clockVars, limiterVars >>
    /\ UNCHANGED << render_mode, reset_requested, read_pos, write_pos, audio_buffer,
                    buffer_poisoned, xsynth_owner, xsynth_poisoned, synth, con >>

\* stop: self.reset_requested.store(true); self.generator_thread = None
StopStore ==
    /\ ~Crashed
    /\ ctl.pc = "stop_store"
    /\ reset_requested' = TRUE
    /\ generator_thread' = NoThread
    /\ ctl' = [ctl EXCEPT !.pc = "stop_read"]
    /\ UNCHANGED << clockVars, limiterVars >>
    /\ UNCHANGED << render_mode, read_pos, write_pos, audio_buffer, buffer_poisoned,
                    events, xsynth_owner, xsynth_poisoned, synth, gen, con >>

\* stop: self.audio_buffer.read_pos.store(0)
StopRead ==
    /\ ~Crashed
    /\ ctl.pc = "stop_read"
    /\ read_pos' = 0
    /\ ctl' = [ctl EXCEPT !.pc = "stop_write"]
    /\ UNCHANGED << clockVars, limiterVars >>
    /\ UNCHANGED << render_mode, reset_requested, write_pos, audio_buffer,
                    buffer_poisoned, events, generator_thread, xsynth_owner,
                    xsynth_poisoned, synth, gen, con >>

\* stop: self.audio_buffer.write_pos.store(0)
StopWrite ==
    /\ ~Crashed
    /\ ctl.pc = "stop_write"
    /\ write_pos' = 0
    /\ ctl' = IF ctl.op = "stop" THEN [ctl EXCEPT !.pc = "idle", !.op = "none"]
              ELSE [ctl EXCEPT !.pc = "mode_store"]
    /\ UNCHANGED << clockVars, limiterVars >>
    /\ UNCHANGED << render_mode, reset_requested, read_pos, audio_buffer,
                    buffer_poisoned, events, generator_thread, xsynth_owner,
                    xsynth_poisoned, synth, gen, con >>

\* switch_render_mode: *render_mode = rm, after stop() or start() has returned
ModeStore ==
    /\ ~Crashed
    /\ ctl.pc = "mode_store"
    /\ render_mode' = IF ctl.op = "to_realtime" THEN "Realtime" ELSE "Rendering"
    /\ ctl' = [ctl EXCEPT !.pc = "idle", !.op = "none"]
    /\ UNCHANGED << clockVars, limiterVars >>
    /\ UNCHANGED << reset_requested, read_pos, write_pos, audio_buffer,
                    buffer_poisoned, events, generator_thread, xsynth_owner,
                    xsynth_poisoned, synth, gen, con >>

ControllerStep ==
    \/ \E evs \in EventLists : SetEvents(evs)
    \/ \E op \in {"start", "stop", "to_realtime", "to_rendering"} : Call(op)
    \/ KillStore
    \/ KillJoin
    \/ StartClear
    \/ StartSpawn
    \/ StopStore
    \/ StopRead
    \/ StopWrite
    \/ ModeStore

\* ---------------------------------------------------------------- ring buffer
FirstCall_NoSplit(start, count) == count

\* write_wrapped asks the engine for count frames in one call, or in two when the
\* span crosses the end of the storage: the frames of the first call
FirstCall(start, count) == Min(count, BufferFrames - (start % BufferFrames))

\* write_wrapped: the frames left for the second call, audio_buffer[0..count]
SecondCall(start, count) == count - FirstCall(start, count)

\* write_wrapped: the slice of the second call is out of range, and the thread panics
\* after the first call has been made
WriteWrappedPanics(start, count) == SecondCall(start, count) > BufferFrames

\* write_wrapped: the storage after the engine has rendered into it
WriteWrapped(buf, start, count) ==
    [k \in Slots |->
        IF ~WriteWrappedPanics(start, count) /\ k < SecondCall(start, count)
        THEN Tag(start + FirstCall(start, count) + k)
        ELSE IF /\ k >= start % BufferFrames
                /\ k < (start % BufferFrames) + FirstCall(start, count)
             THEN Tag(start + k - (start % BufferFrames))
             ELSE buf[k]]

SkippingVelocity_NoCeiling(wr, rd) ==
    LET diff == 127 + 10 - TruncDiv(wr - rd, 100)
    IN  IF diff < 0 THEN 0 ELSE diff

SkippingVelocity_NoMargin(wr, rd) ==
    LET diff == 127 - TruncDiv(wr - rd, 100)
    IN  IF diff > 127 THEN 127 ELSE IF diff < 0 THEN 0 ELSE diff

SkippingVelocity_NoFloor(wr, rd) ==
    LET diff == 127 + 10 - TruncDiv(wr - rd, 100)
    IN  IF diff > 127 THEN 127 ELSE diff

\* get_skipping_velocity for loaded cursor values wr and rd:
\* let mut diff = 127 + 10 - (wr as i32 - rd as i32) / 100, clamped to 0..127
SkippingVelocity(wr, rd) ==
    LET diff == 127 + 10 - TruncDiv(wr - rd, 100)
    IN  IF diff > 127 THEN 127 ELSE IF diff < 0 THEN 0 ELSE diff

\* get_skipping_velocity: the cursors are loaded, write_pos first.  Only the calling
\* generator thread stores write_pos while it runs, so the two loads read one state.
GetSkippingVelocity == SkippingVelocity(write_pos, read_pos)

\* ---------------------------------------------------------------- generator
\* generator_func: self.write_pos.store(0)
GenResetWrite(p) ==
    /\ ~Crashed
    /\ gen[p].pc = "wr0"
    /\ write_pos' = 0
    /\ gen' = [gen EXCEPT ![p].pc = "rd0"]
    /\ UNCHANGED << clockVars, limiterVars >>
    /\ UNCHANGED << render_mode, reset_requested, read_pos, audio_buffer,
                    buffer_poisoned, events, generator_thread, xsynth_owner,
                    xsynth_poisoned, synth, ctl, con >>

\* generator_func: self.read_pos.store(0)
GenResetRead(p) ==
    /\ ~Crashed
    /\ gen[p].pc = "rd0"
    /\ read_pos' = 0
    /\ gen' = [gen EXCEPT ![p].pc = "lock"]
    /\ UNCHANGED << clockVars, limiterVars >>
    /\ UNCHANGED << render_mode, reset_requested, write_pos, audio_buffer,
                    buffer_poisoned, events, generator_thread, xsynth_owner,
                    xsynth_poisoned, synth, ctl, con >>

\* generator_func: let mut xsynth = xsynth.lock().unwrap(), held until the function
\* returns, and buf_len read under the storage lock.  Either unwrap panics on a
\* poisoned mutex.
GenLock(p) ==
    /\ ~Crashed
    /\ gen[p].pc = "lock"
    /\ xsynth_owner = NoThread
    /\ IF xsynth_poisoned \/ buffer_poisoned
       THEN /\ gen' = [gen EXCEPT ![p].pc = "panicked"]
            /\ xsynth_poisoned' = TRUE
            /\ xsynth_owner' = NoThread
       ELSE /\ gen' = [gen EXCEPT ![p].pc = "next"]
            /\ xsynth_owner' = p
            /\ xsynth_poisoned' = xsynth_poisoned
    /\ UNCHANGED << clockVars, limiterVars >>
    /\ UNCHANGED << render_mode, reset_requested, read_pos, write_pos, audio_buffer,
                    buffer_poisoned, events, generator_thread, synth, ctl, con >>

GenEvent_SkipsDue(p) ==
    /\ ~Crashed
    /\ gen[p].pc = "next"
    /\ LET e == Head(gen[p].evs)
           offset_samples == TargetFrame(e) - write_pos
       IN  gen' = IF gen[p].evs = << >>
                  THEN [gen EXCEPT ![p].pc = "kill", ![p].e = NoEvent]
                  ELSE IF reset_requested
                  THEN [gen EXCEPT ![p].pc = "kill", ![p].e = NoEvent,
                                   ![p].evs = Tail(gen[p].evs)]
                  ELSE IF offset_samples > 0
                  THEN [gen EXCEPT ![p].pc = "while", ![p].e = e,
                                   ![p].evs = Tail(gen[p].evs),
                                   ![p].remaining = offset_samples]
                  ELSE [gen EXCEPT ![p].pc = "next", ![p].e = e,
                                   ![p].evs = Tail(gen[p].evs)]
    /\ UNCHANGED << clockVars, limiterVars >>
    /\ UNCHANGED << render_mode, reset_requested, read_pos, write_pos, audio_buffer,
                    buffer_poisoned, events, generator_thread, xsynth_owner,
                    xsynth_poisoned, synth, ctl, con >>

\* generator_func: for e in events { sleep(2 ms); if reset_flag.load() { break; }
\* and offset_samples, with remaining when it is positive
GenEvent(p) ==
    /\ ~Crashed
    /\ gen[p].pc = "next"
    /\ LET e == Head(gen[p].evs)
           offset_samples == TargetFrame(e) - write_pos
       IN  gen' = IF gen[p].evs = << >>
                  THEN [gen EXCEPT ![p].pc = "kill", ![p].e = NoEvent]
                  ELSE IF reset_requested
                  THEN [gen EXCEPT ![p].pc = "kill", ![p].e = NoEvent,
                                   ![p].evs = Tail(gen[p].evs)]
                  ELSE IF offset_samples > 0
                  THEN [gen EXCEPT ![p].pc = "while", ![p].e = e,
                                   ![p].evs = Tail(gen[p].evs),
                                   ![p].remaining = offset_samples]
                  ELSE [gen EXCEPT ![p].pc = "dispatch", ![p].e = e,
                                   ![p].evs = Tail(gen[p].evs)]
    /\ UNCHANGED << clockVars, limiterVars >>
    /\ UNCHANGED << render_mode, reset_requested, read_pos, write_pos, audio_buffer,
                    buffer_poisoned, events, generator_thread, xsynth_owner,
                    xsynth_poisoned, synth, ctl, con >>

\* the run-ahead the backpressure loop allows: buf_len / 2, where buf_len is
\* audio_buffer.len(), the number of floats of the storage
LookaheadCap == (BufferFrames * 2) \div 2

\* generator_func: while write_pos + remaining > read_pos + buf_len / 2
GenWhile(p) ==
    /\ ~Crashed
    /\ gen[p].pc = "while"
    /\ gen' = [gen EXCEPT ![p].pc = IF write_pos + gen[p].remaining > read_pos + LookaheadCap
                                    THEN "spare" ELSE "tail"]
    /\ UNCHANGED << clockVars, limiterVars >>
    /\ UNCHANGED << render_mode, reset_requested, read_pos, write_pos, audio_buffer,
                    buffer_poisoned, events, generator_thread, xsynth_owner,
                    xsynth_poisoned, synth, ctl, con >>

\* generator_func: spare, clamped to remaining
GenSpare(p) ==
    /\ ~Crashed
    /\ gen[p].pc = "spare"
    /\ LET spare == (read_pos + LookaheadCap) - write_pos
           clamped == Min(spare, gen[p].remaining)
       IN  gen' = IF spare > 0
                  THEN IF clamped # 0
                       THEN [gen EXCEPT ![p].pc = "write", ![p].spare = clamped]
                       ELSE [gen EXCEPT ![p].pc = IF gen[p].remaining = 0
                                                  THEN "tail" ELSE "reset_check"]
                  ELSE [gen EXCEPT ![p].pc = "reset_check"]
    /\ UNCHANGED << clockVars, limiterVars >>
    /\ UNCHANGED << render_mode, reset_requested, read_pos, write_pos, audio_buffer,
                    buffer_poisoned, events, generator_thread, xsynth_owner,
                    xsynth_poisoned, synth, ctl, con >>

\* a call of write_wrapped by generator thread p, which holds the xsynth mutex and
\* takes the storage mutex: the storage is written, or the thread panics holding both
GenWriteWrapped(p, count, next_pc) ==
    /\ audio_buffer' = IF buffer_poisoned THEN audio_buffer
                       ELSE WriteWrapped(audio_buffer, write_pos, count)
    /\ IF buffer_poisoned \/ WriteWrappedPanics(write_pos, count)
       THEN /\ gen' = [gen EXCEPT ![p].pc = "panicked",
                                  ![p].pulled = IF buffer_poisoned THEN @
                                                ELSE @ + FirstCall(write_pos, count)]
            /\ buffer_poisoned' = TRUE
            /\ xsynth_poisoned' = TRUE
            /\ xsynth_owner' = NoThread
       ELSE /\ gen' = [gen EXCEPT ![p].pc = next_pc, ![p].pulled = @ + count]
            /\ UNCHANGED << buffer_poisoned, xsynth_poisoned, xsynth_owner >>

\* generator_func: self.write_wrapped(&mut xsynth, write_pos, spare) in the loop
GenWrite(p) ==
    /\ ~Crashed
    /\ gen[p].pc = "write"
    /\ GenWriteWrapped(p, gen[p].spare, "add")
    /\ UNCHANGED << clockVars, limiterVars >>
    /\ UNCHANGED << render_mode, reset_requested, read_pos, write_pos, events,
                    generator_thread, synth, ctl, con >>

FetchAdd_Wrapped(pos, n) == (pos + n) % BufferFrames

FetchAdd_Store(pos, n) == n

\* AtomicUsize::fetch_add
FetchAdd(pos, n) == pos + n

\* generator_func: write_pos.fetch_add(spare); remaining -= spare;
\*                 if remaining == 0 { break; }
GenAdd(p) ==
    /\ ~Crashed
    /\ gen[p].pc = "add"
    /\ write_pos' = FetchAdd(write_pos, gen[p].spare)
    /\ gen' = [gen EXCEPT ![p].remaining = gen[p].remaining - gen[p].spare,
                          ![p].spare = 0,
                          ![p].pc = IF gen[p].remaining - gen[p].spare = 0
                                    THEN "tail" ELSE "reset_check"]
    /\ UNCHANGED << clockVars, limiterVars >>
    /\ UNCHANGED << render_mode, reset_requested, read_pos, audio_buffer,
                    buffer_poisoned, events, generator_thread, xsynth_owner,
                    xsynth_poisoned, synth, ctl, con >>

LoopResetFlag_Never == FALSE

\* generator_func: reset_flag.load() at the end of an iteration of the loop
LoopResetFlag == reset_requested

\* generator_func: if reset_flag.load() { break; }  in the backpressure loop
GenResetCheck(p) ==
    /\ ~Crashed
    /\ gen[p].pc = "reset_check"
    /\ gen' = [gen EXCEPT ![p].pc = IF LoopResetFlag THEN "tail" ELSE "while"]
    /\ UNCHANGED << clockVars, limiterVars >>
    /\ UNCHANGED << render_mode, reset_requested, read_pos, write_pos, audio_buffer,
                    buffer_poisoned, events, generator_thread, xsynth_owner,
                    xsynth_poisoned, synth, ctl, con >>

\* generator_func: if remaining != 0 { self.write_wrapped(&mut xsynth, write_pos, remaining); }
GenTail(p) ==
    /\ ~Crashed
    /\ gen[p].pc = "tail"
    /\ IF gen[p].remaining # 0
       THEN GenWriteWrapped(p, gen[p].remaining, "tail_add")
       ELSE /\ gen' = [gen EXCEPT ![p].pc = "tail_add"]
            /\ UNCHANGED << audio_buffer, buffer_poisoned, xsynth_poisoned, xsynth_owner >>
    /\ UNCHANGED << clockVars, limiterVars >>
    /\ UNCHANGED << render_mode, reset_requested, read_pos, write_pos, events,
                    generator_thread, synth, ctl, con >>

\* generator_func: self.write_pos.fetch_add(remaining)
GenTailAdd(p) ==
    /\ ~Crashed
    /\ gen[p].pc = "tail_add"
    /\ write_pos' = FetchAdd(write_pos, gen[p].remaining)
    /\ gen' = [gen EXCEPT ![p].remaining = 0, ![p].pc = "dispatch"]
    /\ UNCHANGED << clockVars, limiterVars >>
    /\ UNCHANGED << render_mode, reset_requested, read_pos, audio_buffer,
                    buffer_poisoned, events, generator_thread, xsynth_owner,
                    xsynth_poisoned, synth, ctl, con >>

GenDispatch_DropsEqual(p) ==
    /\ ~Crashed
    /\ gen[p].pc = "dispatch"
    /\ synth' = IF gen[p].e.event_type = "NoteOn"
                THEN IF gen[p].e.vel <= GetSkippingVelocity
                     THEN synth
                     ELSE synth \cup {gen[p].e.key}
                ELSE synth \ {gen[p].e.key}
    /\ gen' = [gen EXCEPT ![p].pc = "next"]
    /\ UNCHANGED << clockVars, limiterVars >>
    /\ UNCHANGED << render_mode, reset_requested, read_pos, write_pos, audio_buffer,
                    buffer_poisoned, events, generator_thread, xsynth_owner,
                    xsynth_poisoned, ctl, con >>

\* generator_func: match e.event_type: a NoteOn below the skipping velocity is
\* dropped (continue), the other events are sent to the engine
GenDispatch(p) ==
    /\ ~Crashed
    /\ gen[p].pc = "dispatch"
    /\ synth' = IF gen[p].e.event_type = "NoteOn"
                THEN IF gen[p].e.vel < GetSkippingVelocity
                     THEN synth
                     ELSE synth \cup {gen[p].e.key}
                ELSE synth \ {gen[p].e.key}
    /\ gen' = [gen EXCEPT ![p].pc = "next"]
    /\ UNCHANGED << clockVars, limiterVars >>
    /\ UNCHANGED << render_mode, reset_requested, read_pos, write_pos, audio_buffer,
                    buffer_poisoned, events, generator_thread, xsynth_owner,
                    xsynth_poisoned, ctl, con >>

\* generator_func: AllNotesKilled is sent after the event loop, and the function
\* returns, which releases the xsynth mutex
GenKill(p) ==
    /\ ~Crashed
    /\ gen[p].pc = "kill"
    /\ synth' = {}
    /\ gen' = [gen EXCEPT ![p].pc = "done", ![p].kills = gen[p].kills + 1,
                          ![p].e = NoEvent]
    /\ xsynth_owner' = NoThread
    /\ UNCHANGED << clockVars, limiterVars >>
    /\ UNCHANGED << render_mode, reset_requested, read_pos, write_pos, audio_buffer,
                    buffer_poisoned, events, generator_thread, xsynth_poisoned,
                    ctl, con >>

GeneratorStep ==
    \E p \in Threads :
        \/ GenResetWrite(p)
        \/ GenResetRead(p)
        \/ GenLock(p)
        \/ GenEvent(p)
        \/ GenWhile(p)
        \/ GenSpare(p)
        \/ GenWrite(p)
        \/ GenAdd(p)
        \/ GenResetCheck(p)
        \/ GenTail(p)
        \/ GenTailAdd(p)
        \/ GenDispatch(p)
        \/ GenKill(p)

\* ---------------------------------------------------------------- audio callback
\* the device invokes the callback, which reads the render mode first:
\* let mode = *rm.lock().unwrap()
ConInvoke ==
    /\ ~Crashed
    /\ con.pc = "idle"
    /\ render_mode = "Rendering" => read_pos + BlockFrames <= MaxReadPos
    /\ con' = [ConIdle EXCEPT !.pc = IF render_mode = "Realtime"
                                     THEN "realtime" ELSE "reset_check"]
    /\ UNCHANGED << clockVars, limiterVars >>
    /\ UNCHANGED << render_mode, reset_requested, read_pos, write_pos, audio_buffer,
                    buffer_poisoned, events, generator_thread, xsynth_owner,
                    xsynth_poisoned, synth, gen, ctl >>

ConRealtime_Returns ==
    /\ ~Crashed
    /\ con.pc = "realtime"
    /\ xsynth_owner = NoThread
    /\ con' = IF xsynth_poisoned
              THEN [con EXCEPT !.pc = "panicked"]
              ELSE [con EXCEPT !.pc = "return", !.data = [k \in BlockIdx |-> Live]]
    /\ UNCHANGED << clockVars, limiterVars >>
    /\ UNCHANGED << render_mode, reset_requested, read_pos, write_pos, audio_buffer,
                    buffer_poisoned, events, generator_thread, xsynth_owner,
                    xsynth_poisoned, synth, gen, ctl >>

\* RenderMode::Realtime: xs.lock().unwrap().read_samples(data), which waits for
\* the xsynth mutex
ConRealtime ==
    /\ ~Crashed
    /\ con.pc = "realtime"
    /\ xsynth_owner = NoThread
    /\ con' = IF xsynth_poisoned
              THEN [con EXCEPT !.pc = "panicked"]
              ELSE [con EXCEPT !.pc = "limiter", !.data = [k \in BlockIdx |-> Live]]
    /\ UNCHANGED << clockVars, limiterVars >>
    /\ UNCHANGED << render_mode, reset_requested, read_pos, write_pos, audio_buffer,
                    buffer_poisoned, events, generator_thread, xsynth_owner,
                    xsynth_poisoned, synth, gen, ctl >>

ConResetCheck_FallsThrough ==
    /\ ~Crashed
    /\ con.pc = "reset_check"
    /\ con' = IF reset_requested
              THEN [con EXCEPT !.pc = "limiter", !.data = [k \in BlockIdx |-> Silence]]
              ELSE [con EXCEPT !.pc = "read"]
    /\ UNCHANGED << clockVars, limiterVars >>
    /\ UNCHANGED << render_mode, reset_requested, read_pos, write_pos, audio_buffer,
                    buffer_poisoned, events, generator_thread, xsynth_owner,
                    xsynth_poisoned, synth, gen, ctl >>

\* RenderMode::Rendering: if rr.load() { data.fill(0.0); return; }
ConResetCheck ==
    /\ ~Crashed
    /\ con.pc = "reset_check"
    /\ con' = IF reset_requested
              THEN [con EXCEPT !.pc = "return", !.data = [k \in BlockIdx |-> Silence]]
              ELSE [con EXCEPT !.pc = "read"]
    /\ UNCHANGED << clockVars, limiterVars >>
    /\ UNCHANGED << render_mode, reset_requested, read_pos, write_pos, audio_buffer,
                    buffer_poisoned, events, generator_thread, xsynth_owner,
                    xsynth_poisoned, synth, gen, ctl >>

\* let read = read_pos % (buf.len() / 2), under the storage lock
ConRead ==
    /\ ~Crashed
    /\ con.pc = "read"
    /\ con' = IF buffer_poisoned
              THEN [con EXCEPT !.pc = "panicked"]
              ELSE [con EXCEPT !.pc = "compare", !.read = read_pos % BufferFrames]
    /\ UNCHANGED << clockVars, limiterVars >>
    /\ UNCHANGED << render_mode, reset_requested, read_pos, write_pos, audio_buffer,
                    buffer_poisoned, events, generator_thread, xsynth_owner,
                    xsynth_poisoned, synth, gen, ctl >>

\* if read_pos + count / 2 > write_pos.  rp and wp keep the cursor values the
\* callback loaded last.
ConCompare ==
    /\ ~Crashed
    /\ con.pc = "compare"
    /\ con' = [con EXCEPT !.pc = IF read_pos + BlockFrames > write_pos
                                 THEN "copy_count" ELSE "copy_all",
                          !.rp = read_pos, !.wp = write_pos]
    /\ UNCHANGED << clockVars, limiterVars >>
    /\ UNCHANGED << render_mode, reset_requested, read_pos, write_pos, audio_buffer,
                    buffer_poisoned, events, generator_thread, xsynth_owner,
                    xsynth_poisoned, synth, gen, ctl >>

\* the frames the underrun branch copies:
\* copy_count = read_pos - (write_pos + count / 2), at most count / 2
CopyCount(rd, wr) == Min(rd - (wr + BlockFrames), BlockFrames)

\* let mut copy_count = ...; if copy_count > count / 2 { copy_count = count / 2; }
ConCopyCount ==
    /\ ~Crashed
    /\ con.pc = "copy_count"
    /\ con' = [con EXCEPT !.pc = "copy", !.copy_count = CopyCount(read_pos, write_pos),
                          !.rp = read_pos, !.wp = write_pos]
    /\ UNCHANGED << clockVars, limiterVars >>
    /\ UNCHANGED << render_mode, reset_requested, read_pos, write_pos, audio_buffer,
                    buffer_poisoned, events, generator_thread, xsynth_owner,
                    xsynth_poisoned, synth, gen, ctl >>

\* data[i] = buf[(i + read * 2) % buf.len()], frame by frame
RingFrame(k, read) == audio_buffer[(k + read) % BufferFrames]

\* the underrun branch: copy copy_count frames if that is positive, under the
\* storage lock, and zero the rest of the block
ConCopy ==
    /\ ~Crashed
    /\ con.pc = "copy"
    /\ con' = IF con.copy_count > 0
              THEN IF buffer_poisoned
                   THEN [con EXCEPT !.pc = "panicked"]
                   ELSE [con EXCEPT !.pc = "advance",
                                    !.data = [k \in BlockIdx |->
                                                IF k < con.copy_count
                                                THEN RingFrame(k, con.read)
                                                ELSE Silence]]
              ELSE [con EXCEPT !.pc = "advance", !.copy_count = 0,
                               !.data = [k \in BlockIdx |-> Silence]]
    /\ UNCHANGED << clockVars, limiterVars >>
    /\ UNCHANGED << render_mode, reset_requested, read_pos, write_pos, audio_buffer,
                    buffer_poisoned, events, generator_thread, xsynth_owner,
                    xsynth_poisoned, synth, gen, ctl >>

\* the other branch: the whole block is copied from the ring, under the storage lock
ConCopyAll ==
    /\ ~Crashed
    /\ con.pc = "copy_all"
    /\ con' = IF buffer_poisoned
              THEN [con EXCEPT !.pc = "panicked"]
              ELSE [con EXCEPT !.pc = "advance", !.copy_count = BlockFrames,
                               !.data = [k \in BlockIdx |-> RingFrame(k, con.read)]]
    /\ UNCHANGED << clockVars, limiterVars >>
    /\ UNCHANGED << render_mode, reset_requested, read_pos, write_pos, audio_buffer,
                    buffer_poisoned, events, generator_thread, xsynth_owner,
                    xsynth_poisoned, synth, gen, ctl >>

AdvanceByCopied == con.copy_count

\* the frames the callback advances read_pos by: data.len() / 2
AdvanceFrames == BlockFrames

\* audio_buffer.read_pos.fetch_add(data.len() / 2)
ConAdvance ==
    /\ ~Crashed
    /\ con.pc = "advance"
    /\ read_pos' = FetchAdd(read_pos, AdvanceFrames)
    /\ con' = [con EXCEPT !.pc = "limiter"]
    /\ UNCHANGED << clockVars, limiterVars >>
    /\ UNCHANGED << render_mode, reset_requested, write_pos, audio_buffer,
                    buffer_poisoned, events, generator_thread, xsynth_owner,
                    xsynth_poisoned, synth, gen, ctl >>

\* lim.lock().unwrap().apply_limiter(data)
ConLimiter ==
    /\ ~Crashed
    /\ con.pc = "limiter"
    /\ con' = [con EXCEPT !.pc = "return", !.limited = TRUE]
    /\ UNCHANGED << clockVars, limiterVars >>
    /\ UNCHANGED << render_mode, reset_requested, read_pos, write_pos, audio_buffer,
                    buffer_poisoned, events, generator_thread, xsynth_owner,
                    xsynth_poisoned, synth, gen, ctl >>

\* the callback returns and the device takes the block
ConReturn ==
    /\ ~Crashed
    /\ con.pc = "return"
    /\ con' = ConIdle
    /\ UNCHANGED << clockVars, limiterVars >>
    /\ UNCHANGED << render_mode, reset_requested, read_pos, write_pos, audio_buffer,
                    buffer_poisoned, events, generator_thread, xsynth_owner,
                    xsynth_poisoned, synth, gen, ctl >>

ConsumerStep ==
    \/ ConInvoke
    \/ ConRealtime
    \/ ConResetCheck
    \/ ConRead
    \/ ConCompare
    \/ ConCopyCount
    \/ ConCopy
    \/ ConCopyAll
    \/ ConAdvance
    \/ ConLimiter
    \/ ConReturn

\* ---------------------------------------------------------------- specification
Next == ControllerStep \/ GeneratorStep \/ ConsumerStep

Spec == Init /\ [][Next]_vars

\* the scheduler runs a generator thread that can take a step
FairSpec == Init /\ [][Next]_vars /\ WF_vars(GeneratorStep)

\* ---------------------------------------------------------------- playback clock
\* tick_to_secs: us_per_qn / 1000000.0 / ppq, the seconds of one tick, in clock units
SecPerTick(tempo) == 60000 \div tempo

\* tick_to_secs: the loop over tempo_events[1..], from index i on, and the statements
\* after it.  The loop breaks at the first event beyond tick.
RECURSIVE TickToSecsFrom(_, _, _, _, _, _)
TickToSecsFrom(evs, i, tick, last_tick, last_tempo, seconds) ==
    IF i > Len(evs) \/ evs[i].time > tick
    THEN seconds + (tick - last_tick) * SecPerTick(last_tempo)
    ELSE TickToSecsFrom(evs, i + 1, tick, evs[i].time, evs[i].tempo,
                        seconds + (evs[i].time - last_tick) * SecPerTick(last_tempo))

TickToSecs_FirstTempoOnly(evs, q, tick) ==
    IF Len(evs) = 0
    THEN tick * (UnitsPerSec(q) \div ((q * 120) \div 60))
    ELSE tick * SecPerTick(evs[1].tempo)

TickToSecs_Fallback60(evs, q, tick) ==
    IF Len(evs) = 0
    THEN tick * (UnitsPerSec(q) \div ((q * 60) \div 60))
    ELSE TickToSecsFrom(evs, 2, tick, 0, evs[1].tempo, 0)

\* Playback::tick_to_secs, in clock units.  Without tempo events the result is
\* tick / (ppq * 120.0 / 60.0) seconds.
TickToSecs(evs, q, tick) ==
    IF Len(evs) = 0
    THEN tick * (UnitsPerSec(q) \div ((q * 120) \div 60))
    ELSE TickToSecsFrom(evs, 2, tick, 0, evs[1].tempo, 0)

\* Tick positions are integers in units of 1 / TickScale of a tick: ppq * bpm / 60
\* ticks a second are bpm / 60000 ticks a clock unit.
TickScale == 60000

\* get_playback_time: the loop over tempo_events from index i on, which keeps the
\* last event whose time_norm is not beyond time, and the projection after it
RECURSIVE ProjectFrom(_, _, _, _, _, _)
ProjectFrom(evs, i, time, last_time, last_tick, bpm) ==
    IF i > Len(evs) \/ evs[i].time_norm > time
    THEN (time - last_time) * bpm + last_tick * TickScale
    ELSE ProjectFrom(evs, i + 1, time, evs[i].time_norm, evs[i].time, evs[i].tempo)

SecsToTick_FirstSegment(evs, time) ==
    IF Len(evs) = 0
    THEN time * 120
    ELSE (time - evs[1].time_norm) * evs[1].tempo + evs[1].time * TickScale

\* get_playback_time after time has been computed: the tick of a time in seconds
SecsToTick(evs, time) ==
    IF Len(evs) = 0
    THEN time * 120
    ELSE ProjectFrom(evs, 1, time, evs[1].time_norm, evs[1].time, evs[1].tempo)

\* time_delta.elapsed()
Elapsed == now - playback.time_delta

PlayOrStop_Freezes ==
    /\ playback' = IF playback.is_playing
                   THEN [playback EXCEPT !.playback_secs = playback.last_pos + Elapsed,
                                         !.is_playing = FALSE]
                   ELSE [playback EXCEPT !.last_pos = playback.playback_secs,
                                         !.time_delta = now,
                                         !.is_playing = TRUE]
    /\ UNCHANGED << ppq, now, tick_pos >>
    /\ UNCHANGED << audioVars, limiterVars >>

\* Playback::play_or_stop
PlayOrStop ==
    /\ playback' = IF playback.is_playing
                   THEN [playback EXCEPT !.playback_secs = playback.last_pos,
                                         !.is_playing = FALSE]
                   ELSE [playback EXCEPT !.last_pos = playback.playback_secs,
                                         !.time_delta = now,
                                         !.is_playing = TRUE]
    /\ UNCHANGED << ppq, now, tick_pos >>
    /\ UNCHANGED << audioVars, limiterVars >>

\* Playback::navigate_to
NavigateTo(tick) ==
    /\ playback' = [playback EXCEPT
                       !.last_pos = TickToSecs(playback.tempo_events, ppq, tick),
                       !.playback_secs = TickToSecs(playback.tempo_events, ppq, tick)]
    /\ UNCHANGED << ppq, now, tick_pos >>
    /\ UNCHANGED << audioVars, limiterVars >>

\* Playback::get_playback_time, whose result main.rs stores in nav.tick_pos
GetPlaybackTime ==
    /\ tick_pos' = SecsToTick(playback.tempo_events, Elapsed + playback.last_pos)
    /\ UNCHANGED << playback, ppq, now >>
    /\ UNCHANGED << audioVars, limiterVars >>

\* the length of one step of the wall clock: a tick at 120 beats per minute
ClockStep == 500

\* wall-clock time passes
TimePasses ==
    /\ now < MaxClockSteps * ClockStep
    /\ now' = now + ClockStep
    /\ UNCHANGED << playback, ppq, tick_pos >>
    /\ UNCHANGED << audioVars, limiterVars >>

\* the ticks of the tempo lists: time_norm is filled in from them
RawTempoLists ==
    { << >>,
      << TempoEv(0, 0, 120) >>,
      << TempoEv(0, 0, 120), TempoEv(1920, 0, 60) >>,
      << TempoEv(0, 0, 120), TempoEv(2, 0, 60), TempoEv(2, 0, 240), TempoEv(4, 0, 240) >>,
      << TempoEv(1, 0, 240), TempoEv(3, 0, 60) >> }

\* a tempo list whose time_norm fields are the seconds of its ticks
WithTimeNorm(evs, q) ==
    [i \in 1..Len(evs) |-> TempoEv(evs[i].time, TickToSecs(evs, q, evs[i].time), evs[i].tempo)]

\* the ticks navigate_to is called with
NavTicks == (0..MaxTick) \cup {1920, 3840}

ClockInit ==
    /\ render_mode = "Realtime"
    /\ reset_requested = FALSE
    /\ read_pos = 0
    /\ write_pos = 0
    /\ audio_buffer = [s \in Slots |-> Silence]
    /\ buffer_poisoned = FALSE
    /\ events = << >>
    /\ generator_thread = NoThread
    /\ xsynth_owner = NoThread
    /\ xsynth_poisoned = FALSE
    /\ synth = {}
    /\ gen = [p \in Threads |-> GenIdle]
    /\ ctl = [pc |-> "idle", op |-> "none", calls |-> 0]
    /\ con = ConIdle
    /\ ppq \in {96, 1920}
    /\ \E evs \in RawTempoLists : playback = PlaybackNew(WithTimeNorm(evs, ppq))
    /\ now = 0
    /\ tick_pos = 0
    /\ limiter = LimiterNew
    /\ samples = << >>

ClockNext ==
    \/ PlayOrStop
    \/ \E tick \in NavTicks : NavigateTo(tick)
    \/ GetPlaybackTime
    \/ TimePasses

ClockSpec == ClockInit /\ [][ClockNext]_vars

\* ---------------------------------------------------------------- limiter alone
Magnitude(x) == IF x < 0 THEN -x ELSE x

\* apply_limiter, lines 49-59: the envelope follows the level x of the frame, by
\* falloff when it is above the level and by attack otherwise
Follow(lim, level, x) ==
    IF level > x
    THEN (level * lim.falloff + 100 * x) \div (lim.falloff + 100)
    ELSE (level * lim.attack + 100 * x) \div (lim.attack + 100)

ClampToThresh_Half(lim, level) ==
    IF level < lim.min_thresh \div 2 THEN lim.min_thresh \div 2 ELSE level

\* apply_limiter, lines 61-62
ClampToThresh(lim, level) ==
    IF level < lim.min_thresh THEN lim.min_thresh ELSE level

\* apply_limiter, lines 64-65: the sample divided by the envelope mixed with the
\* strength, then by two
Attenuate(lim, level, x) ==
    TruncDiv(TruncDiv(x * Unity,
                      (level * lim.strength) \div Unity + 2 * (Unity - lim.strength)),
             2)

\* one iteration of the loop of apply_limiter: the frame at samples i, i + 1 of
\* buffer (counted from 0); the velocities are left alone on the first frame
LimitFrame(lim, buffer, i) ==
    LET loud_l == ClampToThresh(lim, Follow(lim, lim.loudness_l, Magnitude(buffer[i + 1])))
        loud_r == ClampToThresh(lim, Follow(lim, lim.loudness_r, Magnitude(buffer[i + 2])))
        env == [lim EXCEPT !.loudness_l = loud_l, !.loudness_r = loud_r]
        l == Attenuate(env, loud_l, buffer[i + 1])
        r == Attenuate(env, loud_r, buffer[i + 2])
        dl == Magnitude(buffer[i + 1] - l)
        dr == Magnitude(buffer[i + 2] - r)
    IN  [lim |-> IF i # 0
                 THEN [env EXCEPT !.velocity_l = Follow(lim, lim.velocity_l, dl),
                                  !.velocity_r = Follow(lim, lim.velocity_r, dr)]
                 ELSE env,
         buffer |-> [buffer EXCEPT ![i + 1] = l, ![i + 2] = r]]

\* the loop of apply_limiter from sample i on
RECURSIVE LimitFrom(_, _, _)
LimitFrom(lim, buffer, i) ==
    IF i >= Len(buffer)
    THEN [lim |-> lim, buffer |-> buffer]
    ELSE LET done == LimitFrame(lim, buffer, i)
         IN  LimitFrom(done.lim, done.buffer, i + 2)

\* Limiter::apply_limiter on one block of the device
ApplyLimiter(buffer) ==
    /\ limiter' = LimitFrom(limiter, buffer, 0).lim
    /\ samples' = LimitFrom(limiter, buffer, 0).buffer
    /\ UNCHANGED << audioVars, clockVars >>

\* the stereo frames the device buffer holds before the limiter is applied: full
\* scale of either sign on both channels, and silence on the left with half
\* scale on the right
InputFrames ==
    { << Unity, -Unity >>, << -Unity, Unity >>, << 0, Unity \div 2 >> }

RECURSIVE Interleaved(_)
Interleaved(frames) ==
    IF Len(frames) = 0 THEN << >> ELSE Head(frames) \o Interleaved(Tail(frames))

\* the blocks of BlockFrames frames
InputBlocks == { Interleaved(frames) : frames \in [1..BlockFrames -> InputFrames] }

LimiterNext == \E buffer \in InputBlocks : ApplyLimiter(buffer)

LimiterSpec == Init /\ [][LimiterNext]_vars

\* ---------------------------------------------------------------- producer and callback alone
\* the event lists of a session nobody cancels: an event that saturates the
\* storage before its frame, and a producer that finds itself behind the callback
ProgressLists ==
    { << NoteOnEv(1000, 60, 127), NoteOnEv(7000, 62, 100), NoteOffEv(9000, 62) >>,
      << NoteOnEv(3000, 60, 127), NoteOffEv(9000, 60) >> }

\* the state switch_render_mode(Rendering) returns in before the thread it spawned
\* has taken a step
ProgressInit ==
    /\ render_mode = "Rendering"
    /\ reset_requested = FALSE
    /\ read_pos = 0
    /\ write_pos = 0
    /\ audio_buffer = [s \in Slots |-> Silence]
    /\ buffer_poisoned = FALSE
    /\ events = << >>
    /\ generator_thread = 1
    /\ xsynth_owner = NoThread
    /\ xsynth_poisoned = FALSE
    /\ synth = {}
    /\ \E evs \in ProgressLists :
          gen = [p \in Threads |-> IF p = 1
                                   THEN [GenIdle EXCEPT !.pc = "wr0", !.evs = evs]
                                   ELSE GenIdle]
    /\ ctl = [pc |-> "idle", op |-> "none", calls |-> 1]
    /\ con = ConIdle
    /\ playback = PlaybackNew(InitialTempo)
    /\ ppq = 1920
    /\ now = 0
    /\ tick_pos = 0
    /\ limiter = LimiterNew
    /\ samples = << >>

\* the callback in Rendering mode
RenderingCallback ==
    \/ ConInvoke
    \/ ConResetCheck
    \/ ConRead
    \/ ConCompare
    \/ ConCopyCount
    \/ ConCopy
    \/ ConCopyAll
    \/ ConAdvance
    \/ ConLimiter
    \/ ConReturn

ProgressNext == GeneratorStep \/ RenderingCallback

\* the scheduler runs the generator thread and the device keeps invoking the
\* callback
ProgressSpec ==
    ProgressInit /\ [][ProgressNext]_vars
        /\ WF_vars(GeneratorStep) /\ WF_vars(RenderingCallback)

\* ---------------------------------------------------------------- dispatch alone
\* The skipping velocity depends on cursor distances of thousands of frames, which
\* the ring of BufferFrames slots never shows.  SkipSpec starts a generator thread
\* at its dispatch of one event, with the cursors anywhere, and lets it dispatch.

\* values of write_pos: around every multiple of 100 up to MaxHundreds hundreds
SkipWrites == { 100 * h + j : h \in 0..MaxHundreds, j \in {0, 1, 99} }

\* values of read_pos: behind, level with and ahead of write_pos
SkipReads == { 0, 99, 1000, 100 * MaxHundreds + 100 }

\* the event being dispatched
SkipEvents == { NoteOnEv(0, 60, v) : v \in {0, 1, 100, 126, 127} } \cup { NoteOffEv(0, 60) }

SkipInit ==
    /\ render_mode = "Rendering"
    /\ reset_requested = FALSE
    /\ read_pos \in SkipReads
    /\ write_pos \in SkipWrites
    /\ audio_buffer = [s \in Slots |-> Silence]
    /\ buffer_poisoned = FALSE
    /\ events = << >>
    /\ generator_thread = 1
    /\ xsynth_owner = 1
    /\ xsynth_poisoned = FALSE
    /\ synth \in { {}, {60} }
    /\ \E e \in SkipEvents :
          gen = [p \in Threads |-> IF p = 1
                                   THEN [GenIdle EXCEPT !.pc = "dispatch", !.e = e]
                                   ELSE GenIdle]
    /\ ctl = [pc |-> "idle", op |-> "none", calls |-> 1]
    /\ con = ConIdle
    /\ playback = PlaybackNew(InitialTempo)
    /\ ppq = 1920
    /\ now = 0
    /\ tick_pos = 0
    /\ limiter = LimiterNew
    /\ samples = << >>

SkipNext == \E p \in Threads : GenDispatch(p)

SkipSpec == SkipInit /\ [][SkipNext]_vars

TypeOK ==
    /\ render_mode \in {"Realtime", "Rendering"}
    /\ reset_requested \in BOOLEAN
    /\ read_pos \in Nat
    /\ write_pos \in Nat
    /\ generator_thread \in Threads \cup {NoThread}
    /\ xsynth_owner \in Threads \cup {NoThread}

\* ---------------------------------------------------------------- claims
\* C1: in every reachable state write_pos - read_pos is at most lengthFrames / 2.
C1_RunAheadAtMostHalf == write_pos - read_pos <= BufferFrames \div 2

CallbackAdvances == ConAdvance

\* a cursor is stored to zero, by a new generator thread or by stop
CursorReset ==
    \/ \E p \in Threads : GenResetWrite(p) \/ GenResetRead(p)
    \/ StopRead
    \/ StopWrite

Unread == { a \in read_pos..(write_pos - 1) : audio_buffer[a % BufferFrames] = Tag(a) }

\* write_wrapped(write_pos, count) stores into the slot of an unread frame
OverwritesUnread(count) ==
    \E a \in Unread : \E b \in write_pos..(write_pos + count - 1) :
        a % BufferFrames = b % BufferFrames

\* C3: no write_wrapped call of generator_func stores into a slot that holds a frame
\* the consumer has not read yet.
C3_NoOverwriteOfUnread ==
    [][\A p \in Threads :
          /\ GenWrite(p) => ~OverwritesUnread(gen[p].spare)
          /\ (GenTail(p) /\ gen[p].remaining # 0) => ~OverwritesUnread(gen[p].remaining)]_vars

\* generator thread p is in its backpressure loop with no room to write: it goes
\* round until read_pos advances or the reset flag is set
Saturated(p) ==
    /\ gen[p].pc \in {"while", "spare", "reset_check"}
    /\ gen[p].remaining > 0
    /\ write_pos >= read_pos + LookaheadCap

\* C4: the callback is never blocked on the engine lock held by a producer that is
\* itself waiting for the callback to advance read_pos.
C4_CallbackNeverWaitsForProducer ==
    ~ /\ con.pc = "realtime"
      /\ xsynth_owner # NoThread
      /\ Saturated(xsynth_owner)
      /\ ~reset_requested

\* C5: at most one generator thread is alive at any time.
C5_AtMostOneProducer == Cardinality({ p \in Threads : Alive(p) }) <= 1

\* C5: start is waiting in join for the previous generator thread, which is alive
C5_Witness ==
    /\ ctl.pc = "kill_join"
    /\ Starting
    /\ generator_thread # NoThread
    /\ Alive(generator_thread)

\* some generator thread is running
ProducerRunning == \E p \in Threads : Alive(p)

\* C6: once the reset flag is set while a generator thread is running, the thread
\* terminates, whatever the callback does.
C6_CancelTerminates ==
    (reset_requested /\ ProducerRunning) ~> ~ProducerRunning

\* C6: the reset flag is set while the producer is saturated in its backpressure loop
C6_Witness ==
    /\ reset_requested
    /\ \E p \in Threads : Saturated(p) /\ gen[p].pc = "reset_check"

\* C7: a generator thread that has ended has sent AllNotesKilled exactly once.
C7_KilledOncePerSession ==
    \A p \in Threads : gen[p].pc \in {"done", "panicked"} => gen[p].kills = 1

\* the callback is past its reset check on the Rendering path
PastResetCheck == con.pc \in {"read", "compare", "copy_count", "copy", "copy_all", "advance"}

\* C8: a callback in Rendering mode that found no reset in flight can always take
\* its next step, fails only on a poisoned storage lock, and adds exactly the
\* block length to read_pos, whatever the run-ahead was.
C8_FullBlockAdvance ==
    /\ [](PastResetCheck /\ ~Crashed => ENABLED ConsumerStep)
    /\ [](con.pc = "panicked" => buffer_poisoned \/ xsynth_poisoned)
    /\ [][(PastResetCheck /\ con'.pc \in {"limiter", "return", "idle"})
             => read_pos' = read_pos + BlockFrames]_vars

\* C8: a callback that found fewer than a block of frames has advanced read_pos by
\* the block
C8_Witness ==
    /\ con.pc = "limiter"
    /\ con.wp - con.rp < BlockFrames
    /\ con.copy_count < BlockFrames
    /\ read_pos = con.rp + BlockFrames

\* C9: every frame of the block whose absolute index is at or beyond write_pos is
\* silence.
C9_UnproducedFramesSilent ==
    con.pc = "advance" =>
        \A k \in BlockIdx : con.rp + k >= con.wp => con.data[k] = Silence

\* C10: on a partial underrun the callback copies the available frames from the
\* ring and zero-fills the rest.
C10_PartialUnderrunCopiesAvailable ==
    [][(/\ con.pc = "copy"
        /\ con'.pc = "advance"
        /\ 0 < con.wp - con.rp
        /\ con.wp - con.rp < BlockFrames)
           => \A k \in BlockIdx :
                 con'.data[k] = IF k < con.wp - con.rp
                                THEN audio_buffer[(con.rp + k) % BufferFrames]
                                ELSE Silence]_vars

\* C11: when a reset is in flight and the mode is Rendering, the callback fills its
\* block with zeros and returns without touching read_pos, write_pos, the ring
\* storage or the limiter.
C11_ResetInFlightSilence ==
    /\ [][(con.pc = "reset_check" /\ reset_requested /\ ConResetCheck)
             => /\ con'.pc = "return"
                /\ \A k \in BlockIdx : con'.data[k] = Silence
                /\ ~con'.limited
                /\ UNCHANGED << read_pos, write_pos, audio_buffer >>]_vars
    /\ [](con.pc = "return" /\ ~con.limited
             => \A k \in BlockIdx : con.data[k] = Silence)
    /\ [][(con.pc = "return" /\ ConReturn)
             => UNCHANGED << read_pos, write_pos, audio_buffer >>]_vars

\* C11: a callback is returning silence, unlimited, while a cancelled producer that
\* has written frames is still running
C11_Witness ==
    /\ con.pc = "return"
    /\ ~con.limited
    /\ reset_requested
    /\ write_pos > 0
    /\ ProducerRunning

\* write_pos still holds what the previous session's generator thread left in it:
\* only a generator thread and stop store write_pos
StaleWritePos ==
    /\ write_pos # 0
    /\ \/ ctl.pc = "start_spawn"
       \/ \E p \in Threads : gen[p].pc = "wr0"

\* C12: a callback in Rendering mode never finds the reset flag clear while a
\* cursor still holds its value of the previous session, and no callback advances
\* read_pos between the new session's reset of write_pos and of read_pos.
C12_CursorsResetBeforeFlagCleared ==
    /\ [][(con.pc = "reset_check" /\ ConResetCheck /\ ~reset_requested) => ~StaleWritePos]_vars
    /\ [][ConAdvance => ~(\E p \in Threads : gen[p].pc = "rd0")]_vars

\* C13: while a generator thread is alive the callback does not take its Realtime
\* arm, the one that uses the engine.
C13_NoRealtimeCallbackWhileProducing ==
    ~(ProducerRunning /\ con.pc = "realtime")

\* stop, or switch_render_mode(Realtime), returns
StopReturns ==
    \/ StopWrite /\ ctl.op = "stop"
    \/ ModeStore /\ ctl.op = "to_realtime"

\* C14: when stop or switch_render_mode(Realtime) returns, no generator thread is
\* alive, the engine lock is free, both cursors are zero and the reset flag is set;
\* stop does not wait when there is no generator thread to join.
C14_StoppedState ==
    /\ [][StopReturns => /\ ~ProducerRunning'
                         /\ xsynth_owner' = NoThread
                         /\ read_pos' = 0
                         /\ write_pos' = 0
                         /\ reset_requested']_vars
    /\ [](ctl.pc = "kill_join" /\ generator_thread = NoThread => ENABLED KillJoin)

\* C15: a NoteOff that reaches the dispatch is always sent to the engine; a NoteOn
\* is sent if and only if its velocity is at least get_skipping_velocity() at that
\* moment, and is otherwise dropped with no other effect.
C15_DispatchRule ==
    [][\A p \in Threads : GenDispatch(p) =>
          LET e == gen[p].e
          IN  /\ synth' \ {e.key} = synth \ {e.key}
              /\ e.event_type = "NoteOff" => e.key \notin synth'
              /\ (e.event_type = "NoteOn" /\ e.vel >= GetSkippingVelocity)
                    => e.key \in synth'
              /\ (e.event_type = "NoteOn" /\ e.vel < GetSkippingVelocity)
                    => UNCHANGED << synth, read_pos, write_pos, audio_buffer,
                                    reset_requested, xsynth_owner >>]_vars

\* C15: a NoteOn of velocity 100 has been dispatched at a run-ahead of 3700 frames,
\* where the skipping velocity is exactly 100
C15_Witness ==
    /\ gen[1].pc = "next"
    /\ gen[1].e.event_type = "NoteOn"
    /\ gen[1].e.vel = 100
    /\ write_pos - read_pos = 3700
    /\ synth = {60}

Clamp(x, lo, hi) == IF x < lo THEN lo ELSE IF x > hi THEN hi ELSE x

\* the run-ahead in frames
RunAhead == write_pos - read_pos

\* C16: get_skipping_velocity is clamp(127 + 10 - runAhead / 100, 0, 127) for the
\* cursors of every state, whichever way the integer division rounds, and is 127
\* when read_pos is ahead of write_pos; a NoteOn is played exactly when its velocity
\* reaches that value.
C16_SkippingVelocityFormula ==
    /\ [](GetSkippingVelocity = Clamp(127 + 10 - TruncDiv(RunAhead, 100), 0, 127))
    /\ [](GetSkippingVelocity = Clamp(127 + 10 - (RunAhead \div 100), 0, 127))
    /\ [](RunAhead < 0 => GetSkippingVelocity = 127)
    /\ [][\A p \in Threads :
             (GenDispatch(p) /\ gen[p].e.event_type = "NoteOn" /\ synth = {})
                => (gen[p].e.key \in synth'
                      <=> gen[p].e.vel >= Clamp(127 + 10 - TruncDiv(RunAhead, 100), 0, 127))]_vars

\* C16: an event has been dispatched with read_pos ahead of write_pos by a distance
\* that is not a multiple of 100
C16_Witness ==
    /\ gen[1].pc = "next"
    /\ gen[1].e.event_type = "NoteOn"
    /\ RunAhead < 0
    /\ (-RunAhead) % 100 # 0

\* the run-aheads the skipping velocity is compared at
RunAheads == { 100 * h : h \in 0..MaxHundreds }

\* C17: the skipping velocity lies in 0..127 and does not increase with the
\* run-ahead, in particular along 0, 1000, 12700, 20000.
C17_SkippingVelocityMonotone ==
    /\ GetSkippingVelocity \in 0..127
    /\ \A b \in RunAheads :
          /\ b >= RunAhead => SkippingVelocity(b, 0) <= GetSkippingVelocity
          /\ b <= RunAhead => SkippingVelocity(b, 0) >= GetSkippingVelocity
    /\ SkippingVelocity(1000, 0) <= SkippingVelocity(0, 0)
    /\ SkippingVelocity(12700, 0) <= SkippingVelocity(1000, 0)
    /\ SkippingVelocity(20000, 0) <= SkippingVelocity(12700, 0)

\* C17: an event has been dispatched at a run-ahead beyond 13700 frames, where the
\* unclamped value is negative
C17_Witness ==
    /\ gen[1].pc = "next"
    /\ RunAhead > 13700
    /\ GetSkippingVelocity = 0

\* the buffer is nearly empty
NearlyEmpty == RunAhead \in 0..999

\* C18, as claimed: a NoteOn of velocity 1..126 dispatched while the buffer is
\* nearly empty is sent to the engine.
C18_OrdinaryNotesPlayedWhenNearlyEmpty ==
    [][\A p \in Threads :
          (/\ GenDispatch(p)
           /\ NearlyEmpty
           /\ gen[p].e.event_type = "NoteOn"
           /\ gen[p].e.vel \in 1..126) => gen[p].e.key \in synth']_vars

\* C18, amended: while the buffer is nearly empty the skipping velocity is 127, so
\* a NoteOn is sent to the engine only at velocity 127 and every NoteOn of lower
\* velocity is dropped.
C18_OnlyFullVelocityWhenNearlyEmpty ==
    /\ [](NearlyEmpty => GetSkippingVelocity = 127)
    /\ [][\A p \in Threads :
             (GenDispatch(p) /\ NearlyEmpty /\ gen[p].e.event_type = "NoteOn")
                => IF gen[p].e.vel >= 127
                   THEN gen[p].e.key \in synth'
                   ELSE synth' = synth]_vars

\* C18: a NoteOn of velocity 126 has been dropped at a run-ahead of 999 frames
C18_Witness ==
    /\ gen[1].pc = "next"
    /\ gen[1].e.event_type = "NoteOn"
    /\ gen[1].e.vel = 126
    /\ RunAhead = 999
    /\ synth = {}

\* C19: set_events with an empty list leaves the pending list as it is, and with a
\* non-empty list makes the pending list that list.
C19_SetEvents ==
    [][\A evs \in EventLists :
          SetEvents(evs) => events' = IF evs = << >> THEN events ELSE evs]_vars

\* C19: set_events has stored a list while a generator thread runs over another
C19_Witness ==
    /\ events # << >>
    /\ \E p \in Threads : Alive(p) /\ gen[p].evs # << >> /\ gen[p].evs # events

\* C20: start leaves the pending event list as it is, so that the next start runs
\* the generator thread over the same list.
C20_StartKeepsEvents ==
    [][StartSpawn => events' = events]_vars

\* C21: a cursor is lowered only by a reset to zero (stop, or a generator thread
\* starting); every other change of write_pos is an addition by a generator thread
\* and every other change of read_pos an addition by the callback.
C21_CursorsMonotone ==
    [][/\ write_pos' # write_pos =>
            \/ write_pos' > write_pos /\ \E p \in Threads : GenAdd(p) \/ GenTailAdd(p)
            \/ write_pos' = 0 /\ (StopWrite \/ \E p \in Threads : GenResetWrite(p))
       /\ read_pos' # read_pos =>
            \/ read_pos' > read_pos /\ ConAdvance
            \/ read_pos' = 0 /\ (StopRead \/ \E p \in Threads : GenResetRead(p))]_vars

\* C21: both cursors have advanced within a session whose producer is still in
\* its backpressure loop
C21_Witness ==
    /\ read_pos >= BlockFrames
    /\ write_pos > read_pos
    /\ \E p \in Threads : gen[p].pc = "spare"

\* the reference of C22: the sum, over the tempo segments that start at or before
\* tick t, of the segment's ticks up to t times the seconds of one of its ticks
RECURSIVE SegmentSum(_, _, _)
SegmentSum(evs, i, t) ==
    IF i > Len(evs)
    THEN 0
    ELSE (IF evs[i].time <= t
          THEN ((IF i < Len(evs) /\ evs[i + 1].time < t THEN evs[i + 1].time ELSE t)
                  - evs[i].time) * (60000 \div evs[i].tempo)
          ELSE 0)
         + SegmentSum(evs, i + 1, t)

\* the tempo list is not empty and starts at tick 0
StartsAtZero(evs) == Len(evs) > 0 /\ evs[1].time = 0

\* C22: for a tempo list that starts at tick 0, tick_to_secs is the piecewise
\* reference; with 120 BPM and ppq 1920, tick 1920 is 0.5 s, and with a change to
\* 60 BPM at tick 1920, tick 1920 is 0.5 s and tick 3840 is 1.5 s.
C22_TickToSecsPiecewise ==
    /\ [][\A t \in NavTicks :
             (NavigateTo(t) /\ StartsAtZero(playback.tempo_events))
                => playback'.last_pos = SegmentSum(playback.tempo_events, 1, t)]_vars
    /\ [](2 * TickToSecs(<< TempoEv(0, 0, 120) >>, 1920, 1920) = UnitsPerSec(1920))
    /\ [](2 * TickToSecs(<< TempoEv(0, 0, 120), TempoEv(1920, 0, 60) >>, 1920, 1920)
             = UnitsPerSec(1920))
    /\ [](2 * TickToSecs(<< TempoEv(0, 0, 120), TempoEv(1920, 0, 60) >>, 1920, 3840)
             = 3 * UnitsPerSec(1920))

\* C22: navigate_to(3840) has set the position to 1.5 s under the tempo change at
\* tick 1920
C22_Witness ==
    /\ ppq = 1920
    /\ Len(playback.tempo_events) = 2
    /\ 2 * playback.last_pos = 3 * UnitsPerSec(ppq)

\* C23: a position that navigate_to set from tick t is reported as tick t by
\* get_playback_time when no wall-clock time has elapsed.
C23_TempoRoundTrip ==
    [][\A t \in NavTicks :
          (/\ GetPlaybackTime
           /\ Elapsed = 0
           /\ playback.last_pos = TickToSecs(playback.tempo_events, ppq, t))
             => tick_pos' = t * TickScale]_vars

\* C23: tick 5 has come back from the round trip through a list with two events
\* at one tick and three tempo changes before it
C23_Witness ==
    /\ Len(playback.tempo_events) = 4
    /\ Elapsed = 0
    /\ tick_pos = 5 * TickScale
    /\ playback.last_pos = TickToSecs(playback.tempo_events, ppq, 5)

\* the clock units of one tick at 120 beats per minute: 1 / (ppq * 2) seconds
UnitsPerTick120(q) == UnitsPerSec(q) \div (q * 2)

\* C24: without tempo events tick_to_secs(ppq, t) is t / (ppq * 2) seconds and
\* get_playback_time reports seconds * ppq * 2 ticks.
C24_DefaultTempo ==
    /\ [][\A t \in NavTicks :
             (NavigateTo(t) /\ Len(playback.tempo_events) = 0)
                => playback'.last_pos = t * UnitsPerTick120(ppq)]_vars
    /\ [][(GetPlaybackTime /\ Len(playback.tempo_events) = 0)
             => tick_pos' = (Elapsed + playback.last_pos)
                              * (TickScale \div UnitsPerTick120(ppq))]_vars

\* C24: without tempo events, a position of tick 3 has been reported one clock
\* step later as tick 4
C24_Witness ==
    /\ Len(playback.tempo_events) = 0
    /\ playback.last_pos = 3 * UnitsPerTick120(ppq)
    /\ Elapsed = ClockStep
    /\ tick_pos = 4 * TickScale

\* C25, as claimed: on stop the frozen position is the baseline plus the time
\* elapsed since play; on play the wall clock is re-anchored and the frozen
\* position becomes the baseline.
C25_StopFreezesCurrentPosition ==
    [][PlayOrStop =>
          IF playback.is_playing
          THEN playback'.playback_secs = playback.last_pos + Elapsed
          ELSE /\ playback'.last_pos = playback.playback_secs
               /\ playback'.time_delta = now]_vars

\* C25, amended: on stop playback_secs is set back to the baseline recorded at
\* play, and the elapsed time is discarded; on play the wall clock is re-anchored
\* and playback_secs becomes the baseline.
C25_StopReturnsToBaseline ==
    [][PlayOrStop =>
          IF playback.is_playing
          THEN /\ playback'.playback_secs = playback.last_pos
               /\ playback'.last_pos = playback.last_pos
               /\ playback'.time_delta = playback.time_delta
               /\ ~playback'.is_playing
          ELSE /\ playback'.last_pos = playback.playback_secs
               /\ playback'.playback_secs = playback.playback_secs
               /\ playback'.time_delta = now
               /\ playback'.is_playing]_vars

\* C25: the clock is stopped at its baseline of tick 2 although it was started
\* after the wall clock had moved and time has elapsed since
C25_Witness ==
    /\ ~playback.is_playing
    /\ playback.time_delta > 0
    /\ Elapsed > 0
    /\ playback.playback_secs = playback.last_pos
    /\ playback.last_pos = TickToSecs(playback.tempo_events, ppq, 2)

\* C26: while the clock is stopped get_playback_time reports the tick of the
\* frozen position whatever the wall clock reads; while it plays it reports the
\* tick of the baseline plus the time elapsed since play.
C26_FrozenWhileStopped ==
    [][GetPlaybackTime =>
          tick_pos' = SecsToTick(playback.tempo_events,
                                 IF playback.is_playing
                                 THEN playback.last_pos + Elapsed
                                 ELSE playback.playback_secs)]_vars

\* the largest magnitude the limiter may put out: 1 / (2 * min_thresh)
OutputBound == (Unity * Unity) \div (2 * LimiterNew.min_thresh)

\* C27: on blocks of samples of magnitude at most 1.0 both envelopes are at least
\* min_thresh after every block and every sample put out has a magnitude of at
\* most 1 / (2 * min_thresh).
C27_LimiterBounded ==
    /\ limiter.loudness_l >= LimiterNew.min_thresh
    /\ limiter.loudness_r >= LimiterNew.min_thresh
    /\ \A i \in 1..Len(samples) : Magnitude(samples[i]) <= OutputBound

\* C27: a block of full-scale frames of alternating sign was put out, its first
\* frame louder than 1.0, by an envelope that had fallen to min_thresh and has
\* not recovered half of it
C27_Witness ==
    /\ Len(samples) = 2 * BlockFrames
    /\ samples[1] > Unity
    /\ samples[2] < 0
    /\ samples[3] <= -Unity
    /\ samples[4] > 0
    /\ limiter.loudness_l <= (3 * LimiterNew.min_thresh) \div 2
    /\ limiter.velocity_l > 0

\* C28: a generator thread that reads the cancellation flag as set, at the top of
\* the event loop or in the backpressure loop, goes on to the final AllNotesKilled
\* with no write_wrapped, no addition to write_pos and no dispatch in between.
C28_NothingAfterCancelObserved ==
    [][\A p \in Threads :
          /\ (GenEvent(p) /\ gen[p].evs # << >> /\ reset_requested)
                => gen'[p].pc = "kill"
          /\ (GenResetCheck(p) /\ LoopResetFlag)
                => gen'[p].pc = "kill"]_vars

\* C29: every write_wrapped of generator_func is called with at most BufferFrames
\* frames and none of its slices is out of range.
C29_WriteWrappedCountWithinStorage ==
    [][\A p \in Threads :
          /\ GenWrite(p)
                => /\ gen[p].spare <= BufferFrames
                   /\ ~WriteWrappedPanics(write_pos, gen[p].spare)
          /\ (GenTail(p) /\ gen[p].remaining # 0)
                => /\ gen[p].remaining <= BufferFrames
                   /\ ~WriteWrappedPanics(write_pos, gen[p].remaining)]_vars

\* C30: write_wrapped(start, count) with count <= BufferFrames renders count
\* frames in all, into the slots from start mod BufferFrames on; the first call
\* ends at or before the end of the storage, and there is a second call, for the
\* frames past the end and from slot 0, only when the span crosses the end.
C30_WriteWrappedSplits ==
    [][\A p \in Threads : \A count \in 1..BufferFrames :
          (/\ ~buffer_poisoned
           /\ \/ GenWrite(p) /\ gen[p].spare = count
              \/ GenTail(p) /\ gen[p].remaining = count)
             => LET s == write_pos % BufferFrames
                IN  /\ FirstCall(write_pos, count) + SecondCall(write_pos, count) = count
                    /\ FirstCall(write_pos, count) >= 1
                    /\ s + FirstCall(write_pos, count) <= BufferFrames
                    /\ SecondCall(write_pos, count)
                          = IF s + count <= BufferFrames THEN 0
                            ELSE s + count - BufferFrames
                    /\ audio_buffer' =
                          [k \in Slots |->
                              IF \E j \in 0..(count - 1) : (write_pos + j) % BufferFrames = k
                              THEN Tag(write_pos + CHOOSE j \in 0..(count - 1) :
                                                      (write_pos + j) % BufferFrames = k)
                              ELSE audio_buffer[k]]]_vars

\* C30: a write_wrapped of at most BufferFrames frames has crossed the end of the
\* storage: slot 0 holds a frame past the one in the last slot
C30_Witness ==
    \E p \in Threads :
        /\ gen[p].pc = "add"
        /\ gen[p].spare <= BufferFrames
        /\ (write_pos % BufferFrames) + gen[p].spare > BufferFrames
        /\ audio_buffer[BufferFrames - 1] = Tag(write_pos + BufferFrames - 1 - (write_pos % BufferFrames))
        /\ audio_buffer[0] = Tag(write_pos + BufferFrames - (write_pos % BufferFrames))

\* generator thread p is between the computation of offset_samples > 0 and the
\* dispatch of its event
Advancing(p) ==
    gen[p].pc \in {"while", "spare", "write", "add", "reset_check", "tail", "tail_add"}

\* the room the backpressure loop computes: read_pos + buf_len / 2 - write_pos
Room == read_pos + LookaheadCap - write_pos

\* C31: while a generator thread advances towards an event, write_pos plus the
\* frames remaining is the event's target frame, so write_pos is never past it and
\* equals it when the event is dispatched; and every advance of write_pos is by
\* min(spare, remaining) frames.
C31_DispatchedAtTargetFrame ==
    /\ [](\A p \in Threads :
             Advancing(p) => write_pos + gen[p].remaining = TargetFrame(gen[p].e))
    /\ [][\A p \in Threads :
             GenTailAdd(p) => write_pos' = TargetFrame(gen[p].e)]_vars
    /\ [][\A p \in Threads :
             /\ GenAdd(p) => write_pos' - write_pos = Min(gen[p].spare, gen[p].remaining)
             /\ (GenTailAdd(p) /\ gen[p].remaining # 0)
                   => write_pos' - write_pos = Min(Room, gen[p].remaining)]_vars

\* C32: an event whose target frame is not beyond write_pos goes straight to the
\* dispatch, and neither that step nor the dispatch changes write_pos or the
\* storage.
C32_DueEventNotAdvanced ==
    [][\A p \in Threads :
          /\ (/\ GenEvent(p)
              /\ gen[p].evs # << >>
              /\ ~reset_requested
              /\ TargetFrame(Head(gen[p].evs)) - write_pos <= 0)
                => /\ gen'[p].pc = "dispatch"
                   /\ gen'[p].e = Head(gen[p].evs)
                   /\ gen'[p].remaining = 0
                   /\ write_pos' = write_pos
                   /\ audio_buffer' = audio_buffer
          /\ GenDispatch(p)
                => /\ gen'[p].pc = "next"
                   /\ write_pos' = write_pos
                   /\ audio_buffer' = audio_buffer]_vars

\* C32: the NoteOff at the frame of the NoteOn before it is at the dispatch, with
\* the note sounding and write_pos still at that frame
C32_Witness ==
    \E p \in Threads :
        /\ gen[p].pc = "dispatch"
        /\ gen[p].e.event_type = "NoteOff"
        /\ gen[p].e.key \in synth
        /\ write_pos = TargetFrame(gen[p].e)
        /\ write_pos > 0

\* the generator thread of the session has sent AllNotesKilled after the last
\* event of its list and returned
Finished == gen[1].pc = "done" /\ gen[1].evs = << >>

\* C33: in a session that is not cancelled and whose callback keeps being
\* invoked, the producer writes nothing when it finds no room, and it
\* eventually works through its list and returns.
C33_ProducerProgress ==
    /\ [][\A p \in Threads :
             (GenSpare(p) /\ Room <= 0)
                => /\ gen'[p].pc = "reset_check"
                   /\ write_pos' = write_pos
                   /\ audio_buffer' = audio_buffer]_vars
    /\ <>Finished

\* C34: a callback in Rendering mode that found a whole block between read_pos
\* and write_pos hands out, as frame k of its block, the frame rendered for the
\* absolute index read_pos + k, taken from slot (read_pos + k) mod BufferFrames.
C34_FifoIntegrity ==
    [][(ConCopyAll /\ ~buffer_poisoned)
          => \A k \in BlockIdx :
                /\ con'.data[k] = Tag(con.rp + k)
                /\ con'.data[k] = audio_buffer[(con.rp + k) % BufferFrames]]_vars

\* the frames generator thread p has written with write_wrapped and not yet
\* added to write_pos
Pending(p) ==
    IF gen[p].pc = "add" THEN gen[p].spare
    ELSE IF gen[p].pc = "tail_add" THEN gen[p].remaining
    ELSE 0

\* C35: once a generator thread has reset write_pos, write_pos is the number of
\* frames the thread has pulled from the engine into the storage, less the frames
\* of a write_wrapped whose addition is still to come; every addition to
\* write_pos is of the frames of the write_wrapped before it, which started at
\* write_pos.  A thread that panicked in write_wrapped has pulled the frames of
\* its first call, at most the storage, and added none of them.
C35_CursorAccounting ==
    /\ [](\A p \in Threads :
             (Alive(p) /\ gen[p].pc # "wr0")
                => /\ gen[p].pulled = write_pos + Pending(p)
                   /\ Pending(p) > 0
                         => audio_buffer[(write_pos + Pending(p) - 1) % BufferFrames]
                               = Tag(write_pos + Pending(p) - 1))
    /\ [](\A p \in Threads :
             gen[p].pc = "panicked"
                => /\ gen[p].pulled >= write_pos
                   /\ gen[p].pulled - write_pos <= BufferFrames)
    /\ [][\A p \in Threads :
             /\ GenAdd(p) => /\ write_pos' - write_pos = gen[p].spare
                             /\ write_pos' = gen[p].pulled
             /\ GenTailAdd(p) => /\ write_pos' - write_pos = gen[p].remaining
                                 /\ write_pos' = gen[p].pulled]_vars

\* C35: a thread that has advanced write_pos before has written again, up to the
\* end of the storage and on from its start, and is about to add those frames
C35_Witness ==
    \E p \in Threads :
        /\ gen[p].pc = "add"
        /\ write_pos > 0
        /\ (write_pos % BufferFrames) + gen[p].spare > BufferFrames
        /\ gen[p].pulled = write_pos + gen[p].spare

\* the block of the callback was rendered by the engine straight into it
RenderedLive == \A k \in BlockIdx : con.data[k] = Live

\* C36: a callback that read the mode as Realtime fills its block from the engine
\* without changing read_pos, write_pos or the storage, then applies the limiter
\* to the block, once, and returns.
C36_RealtimeCallback ==
    /\ [][ConRealtime
             => /\ read_pos' = read_pos
                /\ write_pos' = write_pos
                /\ audio_buffer' = audio_buffer
                /\ ~xsynth_poisoned
                      => /\ con'.pc = "limiter"
                         /\ ~con'.limited
                         /\ \A k \in BlockIdx : con'.data[k] = Live]_vars
    /\ [][(ConLimiter /\ RenderedLive)
             => /\ ~con.limited
                /\ con'.limited
                /\ con'.pc = "return"
                /\ con'.data = con.data
                /\ read_pos' = read_pos
                /\ write_pos' = write_pos
                /\ audio_buffer' = audio_buffer]_vars
    /\ []((con.pc = "return" /\ RenderedLive) => con.limited)

\* C36: a callback in Realtime mode is about to return its limited block, with
\* write_pos where the generator thread of a start() in Realtime mode has taken it
C36_Witness ==
    /\ con.pc = "return"
    /\ RenderedLive
    /\ con.limited
    /\ render_mode = "Realtime"
    /\ write_pos > 0
    /\ read_pos = 0

====
